---- MODULE Spec2Model ----
(***************************************************************************)
(* State-machine model of the SVG Holder backend (src/server.js): startup, *)
(* the Express middleware chain, the health / keep-alive / 404 handlers,   *)
(* the error middleware, the request timeout callback and the SIGINT /     *)
(* SIGTERM handlers.  database.js and routes/svgs.js are imported by       *)
(* server.js but are not among the sources; the Document Store Adapter and *)
(* the create route are modelled from the specification (sections 4.1,     *)
(* 4.2, 4.3 and 6) and are marked as such where they are defined.          *)
(*                                                                         *)
(* Atomicity follows Node's event loop: an action is one macrotask (an I/O *)
(* completion, a timer, a signal, an incoming request or body chunk)       *)
(* together with every synchronous continuation and microtask it triggers. *)
(***************************************************************************)
EXTENDS Integers, Sequences, FiniteSets, TLC

\* ------------------------------------------------------------------ bounds

\* Asset records the store may come to hold.
MaxRecords == 1
\* Chunks in which a request body may arrive.
MaxBodyChunks == 2
\* Granularity of the model's clock, in milliseconds.
TickMs == 15000

\* --------------------------------------------------------- program constants

\* req.setTimeout(30000, ...)
RequestTimeoutMs == 30000
\* Upload ceiling of the Upload Validator, 5 MiB in bytes.
MaxFileSize == 5242880

\* Ticks of socket inactivity after which the 'timeout' event is emitted.
TimeoutTicks == (RequestTimeoutMs + TickMs - 1) \div TickMs

\* The client connections the model follows; each carries one request at a
\* time.  Handlers share nothing but the adapter, the store and the process,
\* so one connection shows every interleaving of a request with its timeout
\* callback, the adapter and the signal handlers.
Conns == {"c1"}

None == "-"

\* ------------------------------------------------------------------- state

VARIABLES
    nodeEnv,      \* process.env.NODE_ENV
    dbErrorText,  \* message text of the error getDatabase() throws
    proc,         \* [status, code, via]: the Node process
    startPc,      \* position of startServer()
    listening,    \* app.listen() has been called
    dbState,      \* Document Store Adapter state
    sessions,     \* sessions currently held by the adapter
    released,     \* sessions released so far
    awaiting,     \* the signal whose handler awaits closeDatabaseConnection()
    closeCalls,   \* calls of closeDatabaseConnection() so far
    store,        \* ids of the persisted Asset Records
    req,          \* per connection: the request being handled, or NoReq
    pc,           \* per connection: position of the request's handling
    res,          \* per connection: the response object
    chunksLeft,   \* per connection: body chunks still to arrive
    idle,         \* per connection: ticks since the last socket activity
    age           \* per connection: ticks since the request arrived (saturating)

procVars == <<proc, startPc, listening, awaiting, closeCalls>>
dbVars == <<dbState, sessions, released>>
reqVars == <<req, pc, res, chunksLeft, idle, age>>
envVars == <<nodeEnv, dbErrorText>>
vars == <<nodeEnv, dbErrorText, proc, startPc, listening, dbState, sessions,
          released, awaiting, closeCalls, store, req, pc, res, chunksLeft, idle, age>>


\* -------------------------------------------------- errors and responses

\* An Error object as the error middleware sees it: its type in the
\* specification's taxonomy, its .code and its .message.
Err(type, code, message) == [type |-> type, code |-> code, message |-> message]

\* callback(new Error('Not allowed by CORS'))
CorsError == Err("Cors", None, "Not allowed by CORS")
\* express.json() on a malformed body: a SyntaxError (malformed input).
JsonParseError == Err("Validation", None, "Unexpected end of JSON input")
\* res.json() on a response whose headers were already sent.
HeadersSentError == Err("HeadersSent", "ERR_HTTP_HEADERS_SENT",
                        "Cannot set headers after they are sent to the client")
\* The upload validator's rejections (raised through next(err)).
InvalidFileTypeError == Err("InvalidFileType", None, "Only SVG files are allowed")
FileTooLargeError == Err("FileTooLarge", "LIMIT_FILE_SIZE", "File too large")
\* getDatabase() before a successful connect / after close.
NotConnectedError == Err("NotConnected", None, dbErrorText)

\* Message texts getDatabase() may carry.
DbErrorTexts == {"Database not connected", "MongoClient is closed"}

\* Message texts of errors raised inside the server.
InternalMessages ==
    DbErrorTexts \cup {CorsError.message, JsonParseError.message, HeadersSentError.message}

\* A JSON response body; absent fields are None.
Body(success, message, database, error) ==
    [success |-> success, message |-> message, database |-> database, error |-> error]

NoRes == [sent |-> <<>>, attempts |-> 0]

HeadersSent(rs) == rs.sent # <<>>

\* res.status(status).json(body): writes the response unless one was already
\* written, in which case the call throws ERR_HTTP_HEADERS_SENT and nothing
\* more reaches the wire.  cause is the error type the response answers.
ResJson(rs, status, body, cause) ==
    IF HeadersSent(rs)
    THEN [rs EXCEPT !.attempts = @ + 1]
    ELSE [sent |-> <<[status |-> status, body |-> body, cause |-> cause]>>,
          attempts |-> rs.attempts + 1]

\* ---------------------------------------------------------- CORS options

NoOrigin == "none"

allowedOrigins ==
    {"https://svgviewer-alpha.vercel.app", "http://localhost:3000", "http://localhost:5173"}

\* origin: function (origin, callback)
CorsAllows(origin) ==
    IF origin = NoOrigin THEN TRUE
    ELSE origin \in allowedOrigins

\* -------------------------------------------------------- error middleware

\* The error middleware without its LIMIT_FILE_SIZE branch.
ErrorStatusWithoutSizeCase(error) ==
    IF error.message = "Only SVG files are allowed" THEN 400
    ELSE 500

ErrorStatus(error) ==
    IF error.code = "LIMIT_FILE_SIZE" THEN 400
    ELSE IF error.message = "Only SVG files are allowed" THEN 400
    ELSE 500

ErrorBody(error) ==
    IF error.code = "LIMIT_FILE_SIZE"
    THEN Body(FALSE, "File size too large. Maximum size is 5MB.", None, None)
    ELSE IF error.message = "Only SVG files are allowed"
    THEN Body(FALSE, "Only SVG files are allowed", None, None)
    ELSE Body(FALSE, "Internal server error", None,
              IF nodeEnv = "development" THEN error.message ELSE "Something went wrong")

\* app.use((error, req, res, next) => ...).  A throw of its own res.json()
\* ends in Express's final handler, which writes nothing once headers are sent.
ErrorMiddleware(rs, error) ==
    ResJson(rs, ErrorStatus(error), ErrorBody(error), error.type)

\* ------------------------------------------------------------- handlers

\* getDatabase(): the handle is available only in Connected.
GetDatabaseOk == dbState = "Connected"

HealthOkBody == Body(TRUE, "SVG Holder API is running", "connected", None)

HealthDownBody(error) ==
    Body(FALSE, "SVG Holder API is running but database is disconnected",
         "disconnected", error.message)

\* A health handler that never consults the adapter.
HealthHandlerAlwaysUp(rs) == ResJson(rs, 200, HealthOkBody, None)

\* app.get('/api/health', ...): try { getDatabase(); res.json(ok) }
\* catch (error) { res.json(down) }.  A throw of the res.json() in the try
\* block is caught by the same catch; a throw inside the catch reaches the
\* error middleware.
HealthHandler(rs) ==
    IF GetDatabaseOk
    THEN IF ~HeadersSent(rs)
         THEN ResJson(rs, 200, HealthOkBody, None)
         ELSE ErrorMiddleware(
                  ResJson(ResJson(rs, 200, HealthOkBody, None),
                          200, HealthDownBody(HeadersSentError), None),
                  HeadersSentError)
    ELSE IF ~HeadersSent(rs)
         THEN ResJson(rs, 200, HealthDownBody(NotConnectedError), "NotConnected")
         ELSE ErrorMiddleware(
                  ResJson(rs, 200, HealthDownBody(NotConnectedError), "NotConnected"),
                  HeadersSentError)

\* app.get('/api/keepalive', ...)
KeepAliveHandler(rs) ==
    IF ~HeadersSent(rs)
    THEN ResJson(rs, 200, Body(TRUE, "Server is alive", None, None), None)
    ELSE ErrorMiddleware(
             ResJson(rs, 200, Body(TRUE, "Server is alive", None, None), None),
             HeadersSentError)

\* app.use('*', ...): the 404 handler
NotFoundHandler(rs) ==
    IF ~HeadersSent(rs)
    THEN ResJson(rs, 404, Body(FALSE, "Route not found", None, None), "NotFound")
    ELSE ErrorMiddleware(
             ResJson(rs, 404, Body(FALSE, "Route not found", None, None), "NotFound"),
             HeadersSentError)

\* The callback given to req.setTimeout(30000, ...)
TimeoutCallback(rs) ==
    ResJson(rs, 408, Body(FALSE, "Request timeout", None, None), "Timeout")


\* ------------------------------------------- Document Store Adapter (4.1)

AdapterStates == {"Disconnected", "Connecting", "Connected", "Closing"}

\* connect(): starts establishing the session; idempotent once connected.
ConnectCalled(s) == IF s = "Disconnected" THEN "Connecting" ELSE s

\* connect() resolving: the session is established.
ConnectEstablished(s) == IF s = "Connecting" THEN "Connected" ELSE s

\* A close() that drops the session without passing through Closing.
CloseCalledAbrupt(s) == IF s = "Connected" THEN "Disconnected" ELSE s

\* close(): starts releasing the session; a no-op unless a session is held.
CloseCalled(s) == IF s = "Connected" THEN "Closing" ELSE s

\* close() resolving: the session is released.
CloseFinished(s) == IF s = "Closing" THEN "Disconnected" ELSE s

\* ------------------------------------------------- Upload Validator (4.2)

NoError == Err(None, None, None)

SvgMime == "image/svg+xml"
SvgExt == ".svg"

\* 1. type check (MIME type or extension), 2. size check, 3. accept.
ValidateUpload(file) ==
    IF ~(file.mime = SvgMime \/ file.ext = SvgExt) THEN InvalidFileTypeError
    ELSE IF file.size > MaxFileSize THEN FileTooLargeError
    ELSE NoError

\* ------------------------------------------------------- request inputs

NoFile == [mime |-> None, ext |-> None, size |-> 0]

Files ==
    [mime : {SvgMime, "text/plain"}, ext : {SvgExt, ".txt"},
     size : {6, MaxFileSize, MaxFileSize + 1}]

Origins == {NoOrigin, "http://localhost:3000", "http://evil.example"}

Request(route, origin, body, file, named) ==
    [route |-> route, origin |-> origin, body |-> body, file |-> file, named |-> named]

NoReq == Request(None, None, None, NoFile, FALSE)

\* The requests a client may send.  A request stopped by the CORS check is
\* never looked at further, so one route stands for all of them; the name
\* field of an upload matters only when the file is accepted.
RequestInputs ==
    {Request("health", o, b, NoFile, FALSE) :
        o \in Origins, b \in {"none", "json", "badjson"}}
    \cup {Request(rt, o, "none", NoFile, FALSE) :
        rt \in {"keepalive", "unknown"}, o \in Origins \ {"http://evil.example"}}
    \cup {Request("create", NoOrigin, "multipart", f, n) :
        f \in Files, n \in BOOLEAN}

HasBody(q) == q.body # "none"

\* ------------------------------------------------------ create route (4.3)

\* POST /api/svgs after the body has arrived: the Upload Validator, then the
\* required fields, then the store.  A validator rejection is raised to the
\* error middleware; the route answers its own validation and store errors.
CreateRoute(q, rs) ==
    IF ValidateUpload(q.file) # NoError
    THEN [pc |-> "done", res |-> ErrorMiddleware(rs, ValidateUpload(q.file))]
    ELSE IF ~q.named
    THEN [pc |-> "done",
          res |-> ResJson(rs, 400, Body(FALSE, "Name and description are required",
                                        None, None), "Validation")]
    ELSE IF ~GetDatabaseOk
    THEN [pc |-> "done",
          res |-> ResJson(rs, 500, Body(FALSE, "Failed to upload SVG", None, None),
                          "NotConnected")]
    ELSE [pc |-> "storeWait", res |-> rs]

\* ------------------------------------------------------ middleware chain

\* What runs once the body is there: express.json(), then the routes, the
\* health and keep-alive endpoints and the 404 handler, in that order.
Dispatch(q, rs) ==
    IF q.body = "badjson"
    THEN [pc |-> "done", res |-> ErrorMiddleware(rs, JsonParseError)]
    ELSE IF q.route = "create" THEN CreateRoute(q, rs)
    ELSE IF q.route = "health" THEN [pc |-> "done", res |-> HealthHandler(rs)]
    ELSE IF q.route = "keepalive" THEN [pc |-> "done", res |-> KeepAliveHandler(rs)]
    ELSE [pc |-> "done", res |-> NotFoundHandler(rs)]

Running == proc.status = "running"

Serving == Running /\ listening

CreatesInFlight == {c \in Conns : pc[c] # "free" /\ req[c].route = "create"}

\* A request whose Origin the CORS middleware refuses: the error goes
\* straight to the error middleware; the timeout middleware never runs.
RequestBlockedByCors(c, q) ==
    /\ Serving
    /\ pc[c] = "free"
    /\ ~CorsAllows(q.origin)
    /\ req' = [req EXCEPT ![c] = q]
    /\ res' = [res EXCEPT ![c] = ErrorMiddleware(NoRes, CorsError)]
    /\ pc' = [pc EXCEPT ![c] = "done"]
    /\ UNCHANGED <<chunksLeft, idle, age, store, procVars, dbVars, envVars>>

\* A request that passes CORS: the timeout is armed, then either its body is
\* already there (k = 0) and it is dispatched at once, or express.json() /
\* the upload parser waits for the k chunks still to come.
RequestArrives(c, q, k) ==
    /\ Serving
    /\ pc[c] = "free"
    /\ CorsAllows(q.origin)
    /\ k > 0 => HasBody(q)
    /\ (q.route = "create" /\ ValidateUpload(q.file) = NoError /\ q.named)
           => Cardinality(store) + Cardinality(CreatesInFlight) < MaxRecords
    /\ req' = [req EXCEPT ![c] = q]
    /\ chunksLeft' = [chunksLeft EXCEPT ![c] = k]
    /\ idle' = [idle EXCEPT ![c] = 0]
    /\ age' = [age EXCEPT ![c] = 0]
    /\ IF k = 0
       THEN /\ pc' = [pc EXCEPT ![c] = Dispatch(q, NoRes).pc]
            /\ res' = [res EXCEPT ![c] = Dispatch(q, NoRes).res]
       ELSE /\ pc' = [pc EXCEPT ![c] = "bodyWait"]
            /\ res' = [res EXCEPT ![c] = NoRes]
    /\ UNCHANGED <<store, procVars, dbVars, envVars>>

\* A chunk of the body arrives (socket activity); the last one lets the
\* middleware chain go on.
BodyChunk(c) ==
    /\ Serving
    /\ pc[c] = "bodyWait"
    /\ chunksLeft' = [chunksLeft EXCEPT ![c] = @ - 1]
    /\ idle' = [idle EXCEPT ![c] = 0]
    /\ IF chunksLeft[c] = 1
       THEN /\ pc' = [pc EXCEPT ![c] = Dispatch(req[c], res[c]).pc]
            /\ res' = [res EXCEPT ![c] = Dispatch(req[c], res[c]).res]
       ELSE UNCHANGED <<pc, res>>
    /\ UNCHANGED <<req, age, store, procVars, dbVars, envVars>>

Waiting(c) == pc[c] \in {"bodyWait", "storeWait"}

Saturate(n) == IF n < TimeoutTicks THEN n ELSE TimeoutTicks

\* Time passes on a connection with an unanswered request, short of the
\* socket's idle timeout.  req.setTimeout() sets the socket's inactivity
\* timeout: every chunk received restarts it, and it is followed here only
\* while the request is in handling and unanswered.
Tick(c) ==
    /\ Serving
    /\ Waiting(c)
    /\ ~HeadersSent(res[c])
    /\ idle[c] + 1 < TimeoutTicks
    /\ idle' = [idle EXCEPT ![c] = @ + 1]
    /\ age' = [age EXCEPT ![c] = Saturate(@ + 1)]
    /\ UNCHANGED <<req, pc, res, chunksLeft, store, procVars, dbVars, envVars>>

\* The socket has been idle for the timeout: the callback registered by the
\* timeout middleware runs.  The handler it interrupts is not cancelled.
SocketIdleTimeout(c) ==
    /\ Serving
    /\ Waiting(c)
    /\ ~HeadersSent(res[c])
    /\ idle[c] + 1 = TimeoutTicks
    /\ idle' = [idle EXCEPT ![c] = 0]
    /\ age' = [age EXCEPT ![c] = Saturate(@ + 1)]
    /\ res' = [res EXCEPT ![c] = TimeoutCallback(@)]
    /\ UNCHANGED <<req, pc, chunksLeft, store, procVars, dbVars, envVars>>

\* The store write of a create request completes: the record is persisted
\* and answered with 201, or the write fails with a StoreError.
StoreWriteResolves(c) ==
    /\ Serving
    /\ pc[c] = "storeWait"
    /\ store' = store \cup {Cardinality(store) + 1}
    /\ res' = [res EXCEPT ![c] = ResJson(@, 201, Body(TRUE, "SVG uploaded successfully",
                                                      None, None), None)]
    /\ pc' = [pc EXCEPT ![c] = "done"]
    /\ UNCHANGED <<req, chunksLeft, idle, age, procVars, dbVars, envVars>>

StoreWriteRejects(c) ==
    /\ Serving
    /\ pc[c] = "storeWait"
    /\ res' = [res EXCEPT ![c] = ResJson(@, 500, Body(FALSE, "Failed to upload SVG",
                                                      None, None), "Store")]
    /\ pc' = [pc EXCEPT ![c] = "done"]
    /\ UNCHANGED <<req, chunksLeft, idle, age, store, procVars, dbVars, envVars>>

\* The exchange is over; the connection carries its next request.
NextRequest(c) ==
    /\ Serving
    /\ pc[c] = "done"
    /\ pc' = [pc EXCEPT ![c] = "free"]
    /\ req' = [req EXCEPT ![c] = NoReq]
    /\ res' = [res EXCEPT ![c] = NoRes]
    /\ chunksLeft' = [chunksLeft EXCEPT ![c] = 0]
    /\ idle' = [idle EXCEPT ![c] = 0]
    /\ age' = [age EXCEPT ![c] = 0]
    /\ UNCHANGED <<store, procVars, dbVars, envVars>>

\* ---------------------------------------------------- startup and shutdown

Exited(code, via) == [status |-> "exited", code |-> code, via |-> via]

\* startServer(): connectToDatabase() is called and awaited.
StartServer ==
    /\ Running
    /\ startPc = "init"
    /\ startPc' = "connecting"
    /\ dbState' = ConnectCalled(dbState)
    /\ UNCHANGED <<proc, listening, awaiting, closeCalls, sessions, released,
                   store, reqVars, envVars>>

\* What startServer() does once the awaited connect has resolved.
AfterConnect == [startPc |-> "listening", listening |-> TRUE, proc |-> proc]

\* A catch block that logs the failure and goes on to listen.
AfterConnectFailureServes ==
    [startPc |-> "failed", listening |-> TRUE, proc |-> proc]

\* What startServer()'s catch block does: process.exit(1).
AfterConnectFailure ==
    [startPc |-> "failed", listening |-> FALSE, proc |-> Exited(1, "startServer")]

ConnectResolves ==
    /\ Running
    /\ startPc = "connecting"
    /\ dbState = "Connecting"
    /\ dbState' = ConnectEstablished(dbState)
    /\ sessions' = sessions + 1
    /\ startPc' = AfterConnect.startPc
    /\ listening' = AfterConnect.listening
    /\ proc' = AfterConnect.proc
    /\ UNCHANGED <<awaiting, closeCalls, released, store, reqVars, envVars>>

\* connect() rejects with a ConnectionError; no session was established.
ConnectRejects ==
    /\ Running
    /\ startPc = "connecting"
    /\ dbState = "Connecting"
    /\ startPc' = AfterConnectFailure.startPc
    /\ listening' = AfterConnectFailure.listening
    /\ proc' = AfterConnectFailure.proc
    /\ UNCHANGED <<awaiting, closeCalls, dbVars, store, reqVars, envVars>>

\* A handler that leaves with a failure code.
AfterCloseFailureCode == [status |-> "exited", code |-> 1, via |-> "signalHandler"]

\* What a signal handler does once the awaited close has resolved.
AfterClose == [status |-> "exited", code |-> 0, via |-> "signalHandler"]

\* A signal handler: await closeDatabaseConnection(); process.exit(0).  When
\* close() has nothing to release it resolves at once and the handler exits
\* the process in the same turn; otherwise the handler waits for the release.
SignalHandler(sig) ==
    /\ Running
    /\ startPc # "init"
    /\ closeCalls' = closeCalls + 1
    /\ dbState' = CloseCalled(dbState)
    /\ IF dbState = "Connected"
       THEN /\ awaiting' = sig
            /\ proc' = proc
       ELSE /\ awaiting' = awaiting
            /\ proc' = AfterClose
    /\ UNCHANGED <<startPc, listening, sessions, released, store, reqVars, envVars>>

OnSIGINT == SignalHandler("SIGINT")

OnSIGTERM == SignalHandler("SIGTERM")

\* The release completes and the waiting handler goes on to process.exit(0).
CloseResolves ==
    /\ Running
    /\ dbState = "Closing"
    /\ awaiting # None
    /\ dbState' = CloseFinished(dbState)
    /\ sessions' = sessions - 1
    /\ released' = released + 1
    /\ proc' = AfterClose
    /\ UNCHANGED <<startPc, listening, awaiting, closeCalls, store, reqVars, envVars>>

\* The release fails.  The handler has no try/catch, so its promise rejects
\* unhandled and process.exit(0) is never reached; Node (v18 or higher)
\* ends the process on the unhandled rejection with exit code 1.
CloseRejects ==
    /\ Running
    /\ dbState = "Closing"
    /\ awaiting # None
    /\ proc' = Exited(1, "unhandledRejection")
    /\ UNCHANGED <<startPc, listening, awaiting, closeCalls, dbVars, store,
                   reqVars, envVars>>

\* ----------------------------------------------------------- specification

Init ==
    /\ nodeEnv \in {"development", "production"}
    /\ dbErrorText \in DbErrorTexts
    /\ proc = [status |-> "running", code |-> -1, via |-> None]
    /\ startPc = "init"
    /\ listening = FALSE
    /\ dbState = "Disconnected"
    /\ sessions = 0
    /\ released = 0
    /\ awaiting = None
    /\ closeCalls = 0
    /\ store = {}
    /\ req = [c \in Conns |-> NoReq]
    /\ pc = [c \in Conns |-> "free"]
    /\ res = [c \in Conns |-> NoRes]
    /\ chunksLeft = [c \in Conns |-> 0]
    /\ idle = [c \in Conns |-> 0]
    /\ age = [c \in Conns |-> 0]

Next ==
    \/ StartServer
    \/ ConnectResolves
    \/ ConnectRejects
    \/ OnSIGINT
    \/ OnSIGTERM
    \/ CloseResolves
    \/ CloseRejects
    \/ \E c \in Conns, q \in RequestInputs : RequestBlockedByCors(c, q)
    \/ \E c \in Conns, q \in RequestInputs, k \in 0..MaxBodyChunks : RequestArrives(c, q, k)
    \/ \E c \in Conns : BodyChunk(c)
    \/ \E c \in Conns : Tick(c)
    \/ \E c \in Conns : SocketIdleTimeout(c)
    \/ \E c \in Conns : StoreWriteResolves(c)
    \/ \E c \in Conns : StoreWriteRejects(c)
    \/ \E c \in Conns : NextRequest(c)

Spec == Init /\ [][Next]_vars


\* ------------------------------------------------------------------ claims

Sent(c) == res[c].sent[1]

Answered(c) == HeadersSent(res[c])

\* C1: the server listens (and so handles any request) only after the initial
\* connect has completed successfully; when the initial connect fails, the
\* process has exited with code 1 and is not listening.
C1_ListenOnlyAfterConnect ==
    /\ listening => (startPc = "listening" /\ sessions + released >= 1)
    /\ (\E c \in Conns : pc[c] # "free") => listening
    /\ startPc = "failed" => (~listening /\ proc = Exited(1, "startServer"))
    /\ (proc.status = "exited" /\ proc.via = "startServer") => startPc = "failed"

C1_Witness == startPc = "failed" /\ proc.status = "exited" /\ dbState = "Connecting"

\* C2 (as claimed): a request still being handled once the 30-second bound
\* has passed has been answered with the 408 timeout response, and a request
\* answered with 408 had reached the bound.
C2_TimeoutAfterBound ==
    \A c \in Conns :
        /\ (Waiting(c) /\ age[c] >= TimeoutTicks) => (Answered(c) /\ Sent(c).status = 408)
        /\ (Answered(c) /\ Sent(c).status = 408) => age[c] >= TimeoutTicks

\* The status the specification fixes for each error type.
ClaimedStatus(type) ==
    CASE type \in {"Validation", "InvalidFileType", "FileTooLarge"} -> 400
      [] type = "NotFound" -> 404
      [] type = "Timeout" -> 408
      [] type \in {"Store", "Connection", "NotConnected"} -> 500

\* C3 (as claimed): every response that answers an error carries the status
\* fixed for that error's type, and a CORS rejection is not answered as a
\* 4xx validation error.
C3_FixedStatusPerErrorType ==
    \A c \in Conns :
        Answered(c) =>
            /\ Sent(c).cause \in {"Validation", "InvalidFileType", "FileTooLarge",
                                  "NotFound", "Timeout", "Store", "Connection",
                                  "NotConnected"}
                   => Sent(c).status = ClaimedStatus(Sent(c).cause)
            /\ Sent(c).cause = "Cors" => Sent(c).status # 400

\* C4 (as claimed): outside development no response body carries the message
\* text of an internal error.
C4_NoInternalDetailOutsideDevelopment ==
    nodeEnv # "development" =>
        \A c \in Conns :
            Answered(c) =>
                /\ Sent(c).body.error \notin InternalMessages
                /\ Sent(c).body.message \notin InternalMessages

\* A step in which the health handler answers the request on connection c.
HealthAnswers(c) ==
    /\ pc[c] \in {"free", "bodyWait"}
    /\ pc'[c] = "done"
    /\ req'[c].route = "health"
    /\ req'[c].body # "badjson"
    /\ CorsAllows(req'[c].origin)
    /\ ~HeadersSent(res[c])

\* C5: whenever the health handler answers, it reports success and
\* database "connected" exactly when the adapter is Connected, and otherwise
\* success:false, database "disconnected" and the error.
C5_HealthMirrorsConnection ==
    [][\A c \in Conns :
          HealthAnswers(c) =>
              /\ HeadersSent(res'[c])
              /\ IF dbState = "Connected"
                 THEN /\ res'[c].sent[1].body.success = TRUE
                      /\ res'[c].sent[1].body.database = "connected"
                      /\ sessions = 1
                 ELSE /\ res'[c].sent[1].body.success = FALSE
                      /\ res'[c].sent[1].body.database = "disconnected"
                      /\ res'[c].sent[1].body.error # None]_vars

C5_Witness ==
    \E c \in Conns :
        /\ pc[c] = "done"
        /\ req[c].route = "health"
        /\ Answered(c)
        /\ Sent(c).body.database = "disconnected"
        /\ dbState = "Closing"

\* C6 (as claimed): once a signal handler has awaited close, the process
\* leaves only through the handler's process.exit(0), whether the close
\* succeeded or failed.
C6_CloseFailureKeepsExitPath ==
    (awaiting # None /\ proc.status = "exited") => proc = Exited(0, "signalHandler")

AdapterEdges ==
    {<<"Disconnected", "Connecting">>, <<"Connecting", "Connected">>,
     <<"Connected", "Closing">>, <<"Closing", "Disconnected">>}

C8_CloseIsReentrant ==
    /\ released <= 1
    /\ closeCalls >= 2 =>
           /\ proc = Exited(0, "signalHandler")
           /\ dbState = "Closing"
           /\ sessions = 1
           /\ released = 0

C8_Witness == closeCalls = 2 /\ awaiting # None

\* A create request whose handling is over and that was answered by the
\* upload pipeline, not by the request timeout.
CreateAnswered(c) ==
    /\ req[c].route = "create"
    /\ pc[c] = "done"
    /\ Answered(c)
    /\ Sent(c).cause # "Timeout"

TypeIndicatesSvg(file) == file.mime = SvgMime \/ file.ext = SvgExt

====
